---- MODULE Spec2Model ----
(***************************************************************************)
(* State-machine model of the two firmware sketches of the repository:     *)
(*   "bridge"  src/src/main.cpp      (192 kHz output, sample-and-hold      *)
(*             input bridge, 80 kHz suppressed-carrier multiply)           *)
(*   "am"      src/unnamed/part_000  (96 kHz two-channel AM chain and the  *)
(*             Hilbert FIR scaffolding)                                    *)
(*                                                                         *)
(* Numbers.  The sources compute in single precision.  The model computes  *)
(* on integers:                                                            *)
(*   - samples, biquad coefficients and delay values are integers (on      *)
(*     integer-valued floats of this size float arithmetic is exact);      *)
(*   - the coefficient sets produced by the trigonometric design formulas  *)
(*     are abstracted to a choice from CoeffSets (the delay reset and the  *)
(*     assignment are modelled as written);                                *)
(*   - a phase is kept in units in which one period is sample_rate_hz, so  *)
(*     that the per-tick increment is the oscillator frequency in Hz;      *)
(*   - sinf is Bhaskara's rational approximation scaled by kSinScale.      *)
(***************************************************************************)
EXTENDS Integers, Sequences, FiniteSets, TLC

\* ---------------------------------------------------------------- bounds
\* Frames processed in one run of a sketch (all blocks together).
MaxTicks == 4
\* Largest block (frameCount) the harness delivers; also the capacity of
\* every input and output buffer.
MaxFrames == 2
\* Frames processed in one run of the two-run AM comparison.
MaxTicksAM == 2
\* Calls of ProcessHilbert in one run of the FIR harness.
MaxHilbertCalls == 3
\* Calls of SimpleBiquad::Process in one run of the biquad harness.
MaxBiquadCalls == 3

\* ------------------------------------------------------ program constants
kTriHz == 1000
kCarrierHz == 80000
kCarrierHzAM == 39500
kInputMaxSrHz == 96000
kInputChannel == 0
\* kTriGain = 0.4 * 0.8 and kOutGain = 0.6 * 0.5, in hundredths.
kTriGainPct == 32
kOutGainPct == 30
\* Scale of the modelled sine: sinf returns kSinScale * sin.
kSinScale == 100

\* Sample rates the harness may report from DAISY.get_samplerate().
SampleRates == {48000, 96000, 160000, 191000, 191500, 192000, 288000}
\* Sample values the harness may deliver.
InVals == {1, 2, 3, 4}

VARIABLES
  variant,      \* which sketch runs: "bridge", "am", or a unit harness
  started,      \* setup() has run and registered the callback
  bridge,       \* the statics of src/src/main.cpp
  out,          \* the harness' two output buffers (bridge sketch)
  tickLog,      \* history: one record per processed frame since setup
  wlog,         \* history: <<channel, index>> of every store of the last call
  lastSize,     \* history: frameCount of the last call, -1 before any
  shared,       \* two-run comparison: the input channel both runs have in common
  amA,          \* the statics of src/unnamed/part_000 (and its output buffers), run A
  amB,          \* the same sketch, run B
  hilbert,      \* hilbert_coeffs, hilbert_state_l/r, hilbert_index of part_000
  hilLog,       \* history: the samples passed to ProcessHilbert, and its last result
  unit,         \* one SimpleBiquad driven on its own
  unitLog       \* history of that biquad since its last configuration

vars ==
  <<variant, started, bridge, out, tickLog, wlog, lastSize, shared, amA, amB,
    hilbert, hilLog, unit, unitLog>>

bridgeVars == <<bridge, out, tickLog, wlog, lastSize>>

amVars == <<shared, amA, amB>>

hilbertVars == <<hilbert, hilLog>>

biquadVars == <<unit, unitLog>>

\* ------------------------------------------------------------ SimpleBiquad
Identity == [b0 |-> 1, b1 |-> 0, b2 |-> 0, a1 |-> 0, a2 |-> 0]

\* Coefficient sets the two Configure* calls of one setup() may produce
\* (abstraction of the normalised float results): hp for the high-pass,
\* lp for the low-pass.
CoeffSets ==
  { [hp |-> Identity, lp |-> Identity],
    [hp |-> [b0 |-> 1, b1 |-> -2, b2 |-> 1, a1 |-> 1, a2 |-> -1],
     lp |-> [b0 |-> 1, b1 |-> 2, b2 |-> 1, a1 |-> -1, a2 |-> 1]] }

\* struct SimpleBiquad with its default member initialisers.
SimpleBiquad == [b0 |-> 1, b1 |-> 0, b2 |-> 0, a1 |-> 0, a2 |-> 0, z1 |-> 0, z2 |-> 0]

\* SimpleBiquad::Process: the returned sample and the updated filter.
Process(bq, x) ==
  LET y == (bq.b0 * x) + bq.z1
      nz1 == (bq.b1 * x) - (bq.a1 * y) + bq.z2
      nz2 == (bq.b2 * x) - (bq.a2 * y)
  IN [y |-> y, bq |-> [bq EXCEPT !.z1 = nz1, !.z2 = nz2]]

\* Mutant of ConfigureBiquad: the delay state is not cleared.
ConfigureBiquadKeepsDelay(bq, c) ==
  [bq EXCEPT !.b0 = c.b0, !.b1 = c.b1, !.b2 = c.b2, !.a1 = c.a1, !.a2 = c.a2]

\* The tail shared by every Configure* function: store the normalised
\* coefficients c and clear the delay state.
ConfigureBiquad(bq, c) ==
  [bq EXCEPT !.b0 = c.b0, !.b1 = c.b1, !.b2 = c.b2, !.a1 = c.a1, !.a2 = c.a2,
             !.z1 = 0, !.z2 = 0]

\* ------------------------------------------------------------------- sinf
\* kSinScale * sin(2*pi*p/period), Bhaskara's approximation on the phase
\* fraction in thousandths of a turn.
sinf(p, period) ==
  LET q == ((p * 1000) \div period) % 1000
      h == IF q <= 500 THEN q ELSE q - 500
      u == h * (500 - h)
      v == (16 * kSinScale * u) \div (1250000 - 4 * u)
  IN IF q <= 500 THEN v ELSE -v

\* --------------------------------------------------------- harness inputs
NullPtr == [null |-> TRUE, buf |-> <<>>]

ChannelBufs(size) ==
  {NullPtr} \cup {[null |-> FALSE, buf |-> b] : b \in [1..size -> InVals]}

\* float** in: the null pointer, or an array of two channel pointers.
InputArrays(size) ==
  {[null |-> TRUE, ch |-> <<NullPtr, NullPtr>>]}
    \cup {[null |-> FALSE, ch |-> <<c, NullPtr>>] : c \in ChannelBufs(size)}

\* ------------------------------------------------- src/src/main.cpp statics
BridgeInit ==
  [tri_phase |-> 0, carrier_phase |-> 0, sample_rate_hz |-> 48000,
   input_sr_hz |-> 48000, hold_factor |-> 1, in_hold_count |-> 0,
   filtered_held |-> 0, hp10 |-> SimpleBiquad, lp20k |-> SimpleBiquad]

\* lroundf(num/den) for positive operands: halves round away from zero.
lroundf(num, den) == (2 * num + den) \div (2 * den)

Abs(x) == IF x < 0 THEN -x ELSE x

\* Mutant of NearInteger: the tolerance is 1% of the integer, not 0.01.
NearIntegerRelative(num, den, hf) == 100 * Abs(num - hf * den) < hf * den

\* fabsf(ratio - (float)hf) < 0.01f, for ratio = num/den.
NearInteger(num, den, hf) == 100 * Abs(num - hf * den) < den

\* main.cpp:143-146: hold factor for output rate sr.
HoldFactorFor(sr) ==
  LET isr == IF sr > kInputMaxSrHz THEN kInputMaxSrHz ELSE sr
      hf == lroundf(sr, isr)
  IN IF NearInteger(sr, isr, hf) /\ hf >= 1 THEN hf ELSE 1

\* Mutant of HoldExpired: the comparison is strict.
HoldExpiredStrict(count) == count < 0

\* main.cpp:104: the countdown has run out.
HoldExpired(count) == count <= 0

\* Mutant of DisconnectedHeld: the held value is kept.
DisconnectedHeldStale(held) == held

\* main.cpp:116: the held value on a tick without input.
DisconnectedHeld(held) == 0

\* Mutant of ReloadCount: the countdown is reloaded one short.
ReloadCountShort(hf) == hf - 1

\* main.cpp:106: the countdown is reloaded when the input is re-sampled.
ReloadCount(hf) == hf

\* main.cpp:112: the countdown after a tick with input.
CountAfterTick(count) == count - 1

\* Mutant of LoopCond: the loop stops one frame early.
LoopCondShort(i, size) == i + 1 < size

\* main.cpp:99: the loop condition.
LoopCond(i, size) == i < size

\* main.cpp:123-124 and 128-129: the two phase wraps.
WrapTri(p, period) == IF p >= period THEN p - period ELSE p

WrapCarrier(p, period) == IF p > period THEN p - period ELSE p

\* One iteration of the loop of AudioCallback (main.cpp:99-133) on frame i.
\* s = [g: statics, out: buffers, log: tick history, w: store history,
\* i: the loop index].
BridgeTick(s, in, have_in) ==
  LET g == s.g
      i == s.i
      x0 == IF have_in THEN in.ch[kInputChannel + 1].buf[i + 1] ELSE 0
      sample == have_in /\ HoldExpired(g.in_hold_count)
      r1 == Process(g.hp10, x0)
      r2 == Process(g.lp20k, r1.y)
      cnt == IF have_in
               THEN CountAfterTick(IF sample THEN ReloadCount(g.hold_factor)
                                               ELSE g.in_hold_count)
               ELSE g.in_hold_count
      held == IF have_in
                THEN (IF sample THEN r2.y ELSE g.filtered_held)
                ELSE DisconnectedHeld(g.filtered_held)
      test_sine == sinf(g.tri_phase, g.sample_rate_hz)
      tri == WrapTri(g.tri_phase + kTriHz, g.sample_rate_hz)
      carrier == sinf(g.carrier_phase, g.sample_rate_hz)
      car == WrapCarrier(g.carrier_phase + kCarrierHz, g.sample_rate_hz)
      o0 == kTriGainPct * test_sine
      o1 == kOutGainPct * (held * carrier)
      ng == [g EXCEPT !.in_hold_count = cnt,
                      !.filtered_held = held,
                      !.hp10 = IF sample THEN r1.bq ELSE @,
                      !.lp20k = IF sample THEN r2.bq ELSE @,
                      !.tri_phase = tri,
                      !.carrier_phase = car]
  IN [g |-> ng,
      out |-> [s.out EXCEPT ![1][i + 1] = o0, ![2][i + 1] = o1],
      log |-> Append(s.log,
                [have_in |-> have_in, sampled |-> sample, x |-> x0,
                 hf |-> g.hold_factor,
                 held |-> held, count |-> cnt,
                 z |-> <<ng.hp10.z1, ng.hp10.z2, ng.lp20k.z1, ng.lp20k.z2>>,
                 o1 |-> o1]),
      w |-> s.w \o << <<0, i>>, <<1, i>> >>,
      i |-> i + 1]

RECURSIVE BridgeLoop(_, _, _, _)
BridgeLoop(s, in, have_in, size) ==
  IF LoopCond(s.i, size)
    THEN BridgeLoop(BridgeTick(s, in, have_in), in, have_in, size)
    ELSE s

\* ------------------------------------------- src/unnamed/part_000 statics
\* kModDepth = 1.0, kBasebandGain = 1.0; kCarrierLevel = 0.5 is kept in
\* halves, so the modulated sample is in halves too.
kModDepth == 1
kBasebandGain == 1
kCarrierLevelHalves == 1
kHilbertTaps == 256

kHilbertCenter == (kHilbertTaps - 1) \div 2

\* Sample rates the harness may report to the AM sketch.
SampleRatesAM == {48000, 96000}
\* Sample values the harness may deliver to the AM sketch.
AMVals == {0, 1}

FilterNames ==
  {"base_hpf_l", "base_hpf_r", "base_lpf_l", "base_lpf_r", "low_shelf_l",
   "low_shelf_r", "pre_emph_l", "pre_emph_r", "bandpass_hpf_l", "bandpass_hpf_r",
   "bandpass_lpf_l", "bandpass_lpf_r", "bandpass_lpf2_l", "bandpass_lpf2_r",
   "post_hpf_l", "post_hpf_r", "post_hpf2_l", "post_hpf2_r"}

\* The six distinct designs setup() asks for (kind and corner frequency; the
\* sample rate and Q are the same in every call of one run).
DesignKeys == {"hp200", "lp5000", "ls200", "hp24000", "lp45000", "hp19000"}

\* part_000:294-311: which design each configured filter receives.
DesignOf ==
  [f \in FilterNames \ {"pre_emph_l", "pre_emph_r"} |->
     CASE f \in {"base_hpf_l", "base_hpf_r"} -> "hp200"
       [] f \in {"base_lpf_l", "base_lpf_r"} -> "lp5000"
       [] f \in {"low_shelf_l", "low_shelf_r"} -> "ls200"
       [] f \in {"bandpass_hpf_l", "bandpass_hpf_r"} -> "hp24000"
       [] f \in {"bandpass_lpf_l", "bandpass_lpf_r", "bandpass_lpf2_l",
                 "bandpass_lpf2_r"} -> "lp45000"
       [] OTHER -> "hp19000"]

LowpassLike == [b0 |-> 1, b1 |-> 2, b2 |-> 1, a1 |-> -1, a2 |-> 1]

HighpassLike == [b0 |-> 1, b1 |-> -2, b2 |-> 1, a1 |-> 1, a2 |-> 0]

\* Results of the six designs (abstraction of the float results; equal
\* arguments give equal coefficients, as in the code).
DesignTables ==
  { [k \in DesignKeys |-> Identity],
    [k \in DesignKeys |->
       IF k \in {"hp200", "hp24000", "hp19000"} THEN HighpassLike ELSE LowpassLike],
    [k \in DesignKeys |->
       IF k \in {"hp200", "lp45000"} THEN HighpassLike
       ELSE IF k = "lp5000" THEN LowpassLike ELSE Identity] }

AMInit ==
  [n \in FilterNames |-> SimpleBiquad] @@
  [sample_rate_hz |-> 96000, carrier_phase |-> 0,
   out |-> <<[i \in 1..(MaxFrames + 1) |-> 0], [i \in 1..(MaxFrames + 1) |-> 0]>>,
   w |-> <<>>, size |-> -1, ticks |-> 0]

\* One filter call of the loop body: register reg ("x" or "y", the local of
\* that name) is passed through the named filter and the result stored back
\* in it; k counts the calls made.
Stage(s, st) ==
  LET r == Process(s.g[st[2]], s[st[1]])
  IN [s EXCEPT !.g[st[2]] = r.bq, ![st[1]] = r.y, !.k = @ + 1]

\* The calls of a list of stages, in order.
RECURSIVE Cascade(_, _)
Cascade(s, stages) ==
  IF s.k > Len(stages) THEN [s EXCEPT !.k = 1] ELSE Cascade(Stage(s, stages[s.k]), stages)

\* Mutant of BaseStages: the right path runs through the left high-pass.
BaseStagesCrossed ==
  << <<"x", "base_hpf_l">>, <<"x", "base_lpf_l">>,
     <<"y", "base_hpf_l">>, <<"y", "base_lpf_r">>,
     <<"x", "low_shelf_l">>, <<"y", "low_shelf_r">> >>

\* part_000:259-263: the filter calls before the modulator, in call order.
BaseStages ==
  << <<"x", "base_hpf_l">>, <<"x", "base_lpf_l">>,
     <<"y", "base_hpf_r">>, <<"y", "base_lpf_r">>,
     <<"x", "low_shelf_l">>, <<"y", "low_shelf_r">> >>

\* part_000:279-283: the filter calls after the modulator, in call order.
PostStages ==
  << <<"x", "bandpass_hpf_l">>, <<"x", "bandpass_lpf_l">>, <<"x", "bandpass_lpf2_l">>,
     <<"y", "bandpass_hpf_r">>, <<"y", "bandpass_lpf_r">>, <<"y", "bandpass_lpf2_r">>,
     <<"x", "post_hpf_l">>, <<"x", "post_hpf2_l">>,
     <<"y", "post_hpf_r">>, <<"y", "post_hpf2_r">> >>

\* part_000:273-274: the carrier's phase wrap.
WrapCarrierAM(p, period) == IF p > period THEN p - period ELSE p

\* part_000:254: the loop condition.
LoopCondAM(i, size) == i < size

\* part_000:276-277: carrier-present amplitude modulation (in halves).
Modulate(x, carrier) ==
  (kCarrierLevelHalves + 2 * (kModDepth * kBasebandGain * x)) * carrier

\* One iteration of the loop of AudioCallback (part_000:254-284).
\* s = [g: statics and buffers, i: frame index, x, y: locals, k: call count].
AMTick(s, in, have_in1, have_in2) ==
  LET i == s.i
      x0 == IF have_in1 THEN in.ch[kInputChannel + 1].buf[i + 1] ELSE 0
      y0 == IF have_in2 THEN in.ch[2].buf[i + 1] ELSE 0
      base == Cascade([s EXCEPT !.x = x0, !.y = y0], BaseStages)
      carrier == sinf(s.g.carrier_phase, s.g.sample_rate_hz)
      car == WrapCarrierAM(s.g.carrier_phase + kCarrierHzAM, s.g.sample_rate_hz)
      post == Cascade([base EXCEPT !.x = Modulate(base.x, carrier),
                                   !.y = Modulate(base.y, carrier)], PostStages)
  IN [post EXCEPT !.g.carrier_phase = car,
                  !.g.out[1][i + 1] = post.x,
                  !.g.out[2][i + 1] = post.y,
                  !.g.w = @ \o << <<0, i>>, <<1, i>> >>,
                  !.i = i + 1]

RECURSIVE AMLoop(_, _, _, _, _)
AMLoop(s, in, have_in1, have_in2, size) ==
  IF LoopCondAM(s.i, size)
    THEN AMLoop(AMTick(s, in, have_in1, have_in2), in, have_in1, have_in2, size)
    ELSE s

\* AudioCallback(in0, out, n) of part_000 on the statics g0.
RunAM(g0, in0, n) ==
  LET h1 == (~in0.null) /\ (~in0.ch[kInputChannel + 1].null)
      h2 == (~in0.null) /\ (~in0.ch[2].null)
  IN AMLoop([g |-> [g0 EXCEPT !.w = <<>>, !.size = n], i |-> 0, x |-> 0, y |-> 0, k |-> 1],
            in0, h1, h2, n).g

ChannelBufsAM(size) ==
  {NullPtr} \cup {[null |-> FALSE, buf |-> b] : b \in [1..size -> AMVals]}

InputArraysAM(size) ==
  {[null |-> TRUE, ch |-> <<NullPtr, NullPtr>>]}
    \cup {[null |-> FALSE, ch |-> <<c, d>>] :
            c \in ChannelBufsAM(size), d \in ChannelBufsAM(size)}

\* What the callback sees of channel k: absent, or its samples.
ChanView(in, k) == IF in.null THEN NullPtr ELSE in.ch[k + 1]

\* ------------------------------------------------------------ Hilbert FIR
\* Division that rounds toward zero, as sign-symmetric as float division.
DivSym(a, b) ==
  IF (a < 0) = (b < 0) THEN Abs(a) \div Abs(b) ELSE -(Abs(a) \div Abs(b))

\* 1000 * cos(2*pi*num/den): Bhaskara's approximation on the exact fraction
\* (cos x = sin(x + pi/2); a turn is 4*den units).
cosf(num, den) ==
  LET p == (4 * num + den) % (4 * den)
      half == 2 * den
      h == IF p <= half THEN p ELSE p - half
      u == h * (half - h)
      v == (16 * 1000 * u) \div (5 * half * half - 4 * u)
  IN IF p <= half THEN v ELSE -v

\* part_000:204-208: the four-term Blackman-Harris window at tap i, times 10^6.
Window(i) ==
  LET d == kHilbertTaps - 1
  IN (35875 * 1000 - 48829 * cosf(i, d) + 14128 * cosf(2 * i, d)
        - 1168 * cosf(3 * i, d)) \div 100

\* part_000:195-209: tap i of the table, times 10^6 (pi as 355/113).
HilbertCoeff(i) ==
  LET n == i - kHilbertCenter
  IN IF n = 0 THEN 0
     ELSE IF n % 2 # 0 THEN DivSym(2 * 113 * Window(i), 355 * n)
     ELSE 0

HilbertInit ==
  [hilbert_coeffs |-> [i \in 0..(kHilbertTaps - 1) |-> 0],
   hilbert_state_l |-> [i \in 0..(kHilbertTaps - 1) |-> 0],
   hilbert_state_r |-> [i \in 0..(kHilbertTaps - 1) |-> 0],
   hilbert_index |-> 0]

\* InitHilbertCoeffs (part_000:191-218).
InitHilbertCoeffs ==
  [hilbert_coeffs |-> [i \in 0..(kHilbertTaps - 1) |-> HilbertCoeff(i)],
   hilbert_state_l |-> [i \in 0..(kHilbertTaps - 1) |-> 0],
   hilbert_state_r |-> [i \in 0..(kHilbertTaps - 1) |-> 0],
   hilbert_index |-> 0]

\* part_000:225-233: the ring slot read for tap i (idx starts at
\* hilbert_index and steps back with wrap-around once per tap).
RingIdx(index, i) == (index + kHilbertTaps - i) % kHilbertTaps

\* part_000:226-233: the sum of hilbert_coeffs[i] * state[idx] over taps
\* lo..hi (integer sums do not depend on the order of the additions).
RECURSIVE HilbertSum(_, _, _, _, _)
HilbertSum(coeffs, state, index, lo, hi) ==
  IF lo = hi
    THEN coeffs[lo] * state[RingIdx(index, lo)]
    ELSE LET mid == (lo + hi) \div 2
         IN HilbertSum(coeffs, state, index, lo, mid)
              + HilbertSum(coeffs, state, index, mid + 1, hi)

\* ProcessHilbert(x, state) (part_000:220-236): the returned sample and the
\* state array after the call.  hilbert_index is only read.
ProcessHilbert(h, x, state) ==
  LET st == [state EXCEPT ![h.hilbert_index] = x]
  IN [y |-> HilbertSum(h.hilbert_coeffs, st, h.hilbert_index, 0, kHilbertTaps - 1),
      state |-> st]

\* Samples passed to ProcessHilbert.
HilVals == {1, 2}

\* ------------------------------------------------------- biquad on its own
\* Coefficient sets of the biquad harness: every combination of small values.
CoeffCube == [b0 : {-1, 2}, b1 : {-1, 2}, b2 : {-1, 2}, a1 : -1..1, a2 : -1..1]

BiquadVals == {-1, 0, 1}

\* ------------------------------------------------------------------- Init
EmptyOut == <<[i \in 1..(MaxFrames + 1) |-> 0], [i \in 1..(MaxFrames + 1) |-> 0]>>

\* The statics of a sketch that is not the one running do not exist.
Absent == <<>>

BridgeStatics ==
  /\ bridge = BridgeInit
  /\ out = EmptyOut
  /\ tickLog = <<>>
  /\ wlog = <<>>
  /\ lastSize = -1

NoBridge ==
  /\ bridge = Absent
  /\ out = Absent
  /\ tickLog = Absent
  /\ wlog = Absent
  /\ lastSize = -1

AMStatics ==
  /\ amA = AMInit
  /\ amB = AMInit
  /\ hilbert = HilbertInit
  /\ hilLog = [l |-> <<>>, r |-> <<>>, y |-> 0, last |-> "none"]

NoAM ==
  /\ shared = 0
  /\ amA = Absent
  /\ amB = Absent
  /\ hilbert = Absent
  /\ hilLog = Absent

NoUnit == unit = Absent /\ unitLog = Absent

InitBridge == variant = "bridge" /\ started = FALSE /\ BridgeStatics /\ NoAM /\ NoUnit

InitAM ==
  /\ variant = "am"
  /\ started = FALSE
  /\ shared \in {0, 1}
  /\ AMStatics
  /\ NoBridge
  /\ NoUnit

InitBiquad ==
  /\ variant = "biquad"
  /\ started = FALSE
  /\ unit = SimpleBiquad
  /\ unitLog = [calls |-> 0, since |-> 0, zeros |-> TRUE, y |-> 0]
  /\ NoBridge
  /\ NoAM

Init == InitBridge \/ InitAM

\* ---------------------------------------------------------------- actions
\* setup() of src/src/main.cpp; sr is what DAISY.get_samplerate() returns,
\* c the coefficient sets the two Configure calls compute.
setup ==
  /\ variant = "bridge"
  /\ ~started
  /\ \E sr \in SampleRates, c \in CoeffSets :
       bridge' = [bridge EXCEPT
                    !.sample_rate_hz = sr,
                    !.input_sr_hz = IF sr > kInputMaxSrHz THEN kInputMaxSrHz ELSE sr,
                    !.hold_factor = HoldFactorFor(sr),
                    !.in_hold_count = 0,
                    !.filtered_held = 0,
                    !.hp10 = ConfigureBiquad(@, c.hp),
                    !.lp20k = ConfigureBiquad(@, c.lp)]
  /\ started' = TRUE
  /\ UNCHANGED <<variant, out, tickLog, wlog, lastSize>>
  /\ UNCHANGED <<amVars, hilbertVars, biquadVars>>

\* AudioCallback(in, out, size) of src/src/main.cpp, one whole block.
AudioCallback ==
  /\ variant = "bridge"
  /\ started
  /\ \E size \in 0..MaxFrames :
       /\ Len(tickLog) + size <= MaxTicks
       /\ \E in \in InputArrays(size) :
            LET h0 == (~in.null) /\ (~in.ch[kInputChannel + 1].null)
                r == BridgeLoop([g |-> bridge, out |-> out, log |-> tickLog,
                                 w |-> <<>>, i |-> 0], in, h0, size)
            IN /\ bridge' = r.g
               /\ out' = r.out
               /\ tickLog' = r.log
               /\ wlog' = r.w
               /\ lastSize' = size
  /\ UNCHANGED <<variant, started, amVars, hilbertVars, biquadVars>>

NextBridge == setup \/ AudioCallback

SpecBridge == InitBridge /\ [][NextBridge]_vars

\* setup() of part_000: sr is what DAISY.get_samplerate() returns, d the
\* results of the design formulas.  Both runs are set up alike.
setupAM ==
  /\ variant = "am"
  /\ ~started
  /\ \E sr \in SampleRatesAM, d \in DesignTables :
       LET g == [m \in DOMAIN AMInit |->
                   IF m \in DOMAIN DesignOf
                     THEN ConfigureBiquad(AMInit[m], d[DesignOf[m]])
                     ELSE IF m = "sample_rate_hz" THEN sr ELSE AMInit[m]]
       IN amA' = g /\ amB' = g
  /\ hilbert' = InitHilbertCoeffs
  /\ started' = TRUE
  /\ UNCHANGED <<variant, shared, hilLog, bridgeVars, biquadVars>>

\* AudioCallback(in, out, size) of part_000, one whole block, in two runs
\* that receive the same samples (and presence) on channel `shared`.
AudioCallbackAM ==
  /\ variant = "am"
  /\ started
  /\ \E size \in 0..MaxFrames :
       /\ amA.ticks + size <= MaxTicksAM
       /\ \E inA \in InputArraysAM(size), inB \in InputArraysAM(size) :
            /\ ChanView(inA, shared) = ChanView(inB, shared)
            /\ amA' = [RunAM(amA, inA, size) EXCEPT !.ticks = @ + size]
            /\ amB' = [RunAM(amB, inB, size) EXCEPT !.ticks = @ + size]
  /\ UNCHANGED <<variant, started, shared, hilbertVars, bridgeVars, biquadVars>>

NextAM == setupAM \/ AudioCallbackAM

SpecAM == InitAM /\ [][NextAM]_vars

Next == setup \/ AudioCallback \/ setupAM \/ AudioCallbackAM

Spec == Init /\ [][Next]_vars

\* ProcessHilbert(x, hilbert_state_l) called by a client of the FIR.
ProcessHilbertL ==
  /\ variant = "am"
  /\ started
  /\ Len(hilLog.l) + Len(hilLog.r) < MaxHilbertCalls
  /\ \E x \in HilVals :
       LET r == ProcessHilbert(hilbert, x, hilbert.hilbert_state_l)
       IN /\ hilbert' = [hilbert EXCEPT !.hilbert_state_l = r.state]
          /\ hilLog' = [hilLog EXCEPT !.l = Append(@, x), !.y = r.y, !.last = "l"]
  /\ UNCHANGED <<variant, started, amVars, bridgeVars, biquadVars>>

\* ProcessHilbert(x, hilbert_state_r) called by a client of the FIR.
ProcessHilbertR ==
  /\ variant = "am"
  /\ started
  /\ Len(hilLog.l) + Len(hilLog.r) < MaxHilbertCalls
  /\ \E x \in HilVals :
       LET r == ProcessHilbert(hilbert, x, hilbert.hilbert_state_r)
       IN /\ hilbert' = [hilbert EXCEPT !.hilbert_state_r = r.state]
          /\ hilLog' = [hilLog EXCEPT !.r = Append(@, x), !.y = r.y, !.last = "r"]
  /\ UNCHANGED <<variant, started, amVars, bridgeVars, biquadVars>>

NextHilbert == setupAM \/ ProcessHilbertL \/ ProcessHilbertR

SpecHilbert == InitAM /\ [][NextHilbert]_vars

\* A Configure* call on the biquad: any coefficient set.
ConfigureCall ==
  /\ variant = "biquad"
  /\ \E c \in CoeffCube : unit' = ConfigureBiquad(unit, c)
  /\ unitLog' = [unitLog EXCEPT !.zeros = TRUE, !.since = 0, !.y = 0]
  /\ UNCHANGED <<variant, started, shared, bridgeVars, amA, amB, hilbertVars>>

\* unit.Process(x).
ProcessCall ==
  /\ variant = "biquad"
  /\ unitLog.calls < MaxBiquadCalls
  /\ \E x \in BiquadVals :
       LET r == Process(unit, x)
       IN /\ unit' = r.bq
          /\ unitLog' = [calls |-> unitLog.calls + 1,
                       since |-> unitLog.since + 1,
                       zeros |-> unitLog.zeros /\ x = 0,
                       y |-> r.y]
  /\ UNCHANGED <<variant, started, shared, bridgeVars, amA, amB, hilbertVars>>

NextBiquad == ConfigureCall \/ ProcessCall

SpecBiquad == InitBiquad /\ [][NextBiquad]_vars

\* ================================================================ claims
\* ------------------------------------------------- helpers on the history
HeldBefore(j) == IF j = 1 THEN 0 ELSE tickLog[j - 1].held

CountBefore(j) == IF j = 1 THEN 0 ELSE tickLog[j - 1].count

DelayBefore(j) == IF j = 1 THEN <<0, 0, 0, 0>> ELSE tickLog[j - 1].z

AllConnected == \A j \in 1..Len(tickLog) : tickLog[j].have_in

IdentityFilters ==
  /\ \A f \in {"b0", "b1", "b2", "a1", "a2"} : bridge.hp10[f] = Identity[f]
  /\ \A f \in {"b0", "b1", "b2", "a1", "a2"} : bridge.lp20k[f] = Identity[f]

Inputs == [j \in 1..Len(tickLog) |-> tickLog[j].x]

Helds == [j \in 1..Len(tickLog) |-> tickLog[j].held]

\* C1: while every block has the input connected, the input is re-sampled
\* exactly on the ticks t (from 0, across blocks) with t mod hold_factor = 0,
\* the held value is unchanged on every other tick, and with hold factor 2,
\* identity filters and input 1,2,3,4 the held sequence is 1,1,3,3.
C1_HoldSequence ==
  (variant = "bridge" /\ started /\ AllConnected) =>
    /\ \A j \in 1..Len(tickLog) :
         /\ tickLog[j].sampled <=> ((j - 1) % bridge.hold_factor = 0)
         /\ (~tickLog[j].sampled) => tickLog[j].held = HeldBefore(j)
         /\ (tickLog[j].sampled /\ IdentityFilters) => tickLog[j].held = tickLog[j].x
    /\ (bridge.hold_factor = 2 /\ IdentityFilters /\ Inputs = <<1, 2, 3, 4>>)
         => Helds = <<1, 1, 3, 3>>

C1_Witness ==
  /\ variant = "bridge" /\ started /\ AllConnected
  /\ bridge.hold_factor = 2 /\ IdentityFilters
  /\ Inputs = <<1, 2, 3, 4>>
  /\ Helds = <<1, 1, 3, 3>>

\* The stores of one call into channel c, as the sequence of their indices.
StoresTo(w, c) ==
  LET sel == SelectSeq(w, LAMBDA e : e[1] = c)
  IN [j \in 1..Len(sel) |-> sel[j][2]]

PopulatedOnce(w, n) ==
  \A c \in {0, 1} : StoresTo(w, c) = [j \in 1..n |-> j - 1]

\* C2: when AudioCallback(in, out, size) returns, in either sketch, every
\* index 0..size-1 of out[0] and of out[1] has been stored exactly once, in
\* increasing order, and no other index, whatever the input pointers are.
C2_OutputPopulated ==
  /\ (variant = "bridge" /\ lastSize >= 0) =>
       /\ PopulatedOnce(wlog, lastSize)
       /\ \A i \in 1..lastSize :
            out[2][i] = tickLog[Len(tickLog) - lastSize + i].o1
  /\ (variant = "am" /\ amA.size >= 0) =>
       /\ PopulatedOnce(amA.w, amA.size)
       /\ PopulatedOnce(amB.w, amB.size)

C2_Witness ==
  /\ variant = "bridge"
  /\ lastSize = 2
  /\ ~tickLog[Len(tickLog)].have_in
  /\ wlog = << <<0, 0>>, <<1, 0>>, <<0, 1>>, <<1, 1>> >>

\* C3: on every tick of a block whose input array or input channel pointer is
\* null the held value is zero and the sample stored in out[1] is zero,
\* whatever earlier blocks left behind.
C3_DisconnectedSilence ==
  variant = "bridge" =>
    /\ \A j \in 1..Len(tickLog) :
         (~tickLog[j].have_in) => (tickLog[j].held = 0 /\ tickLog[j].o1 = 0)
    /\ (lastSize > 0 /\ ~tickLog[Len(tickLog)].have_in) =>
         \A i \in 1..lastSize : out[2][i] = 0

C3_Witness ==
  /\ variant = "bridge"
  /\ \E j \in 2..Len(tickLog) :
       /\ ~tickLog[j].have_in
       /\ tickLog[j - 1].held # 0
       /\ tickLog[j - 1].o1 # 0
       /\ tickLog[j - 1].count > 0
       /\ tickLog[j].o1 = 0

\* C4: started from 0 with an increment below one period, the test-tone
\* phase stays in [0, 1) and the carrier phase in [0, 2*pi): neither ever
\* equals its full period.  (One period is sample_rate_hz phase units.)
C4_PhaseBound ==
  (variant = "bridge" /\ kCarrierHz < bridge.sample_rate_hz
     /\ kTriHz < bridge.sample_rate_hz) =>
    /\ 0 <= bridge.tri_phase /\ bridge.tri_phase < bridge.sample_rate_hz
    /\ 0 <= bridge.carrier_phase /\ bridge.carrier_phase < bridge.sample_rate_hz

\* n is outputRate/inputRate rounded to the nearest integer (halves up).
RoundsTo(n, o, i) == (2 * n - 1) * i <= 2 * o /\ 2 * o < (2 * n + 1) * i

RECURSIVE ConnectedIn(_, _)
ConnectedIn(a, b) ==
  IF a > b THEN 0
  ELSE (IF tickLog[b].have_in THEN 1 ELSE 0) + ConnectedIn(a, b - 1)

\* C10: after setup and after every tick, 0 <= in_hold_count <=
\* hold_factor - 1; a tick without input leaves the countdown and the delay
\* state of both input biquads unchanged; and of any hold_factor ticks with
\* input (ticks without input in between not counted) one re-samples.
C10_CountdownInvariant ==
  variant = "bridge" =>
    /\ 0 <= bridge.in_hold_count
    /\ bridge.in_hold_count <= bridge.hold_factor - 1
    /\ \A j \in 1..Len(tickLog) :
         /\ 0 <= tickLog[j].count
         /\ tickLog[j].count <= bridge.hold_factor - 1
         /\ (~tickLog[j].have_in) =>
              (tickLog[j].count = CountBefore(j) /\ tickLog[j].z = DelayBefore(j))
    /\ \A a \in 1..Len(tickLog) : \A b \in a..Len(tickLog) :
         ConnectedIn(a, b) >= bridge.hold_factor =>
           \E j \in a..b : tickLog[j].sampled

C10_Witness ==
  /\ variant = "bridge"
  /\ bridge.hold_factor = 2
  /\ Len(tickLog) = 4
  /\ tickLog[1].sampled
  /\ ~tickLog[2].have_in /\ tickLog[2].count = 1
  /\ tickLog[2].z # <<0, 0, 0, 0>>
  /\ tickLog[3].have_in /\ ~tickLog[3].sampled
  /\ tickLog[4].sampled

\* C6: after InitHilbertCoeffs the table is antisymmetric about
\* kHilbertCenter wherever both mirror indices exist, the centre tap is
\* zero, and every tap at an even offset from the centre is zero.
C6_HilbertAntisymmetric ==
  (variant = "am" /\ started) =>
    LET c == kHilbertCenter
        h == hilbert.hilbert_coeffs
    IN /\ h[c] = 0
       /\ \A k \in 1..kHilbertTaps :
            (c + k <= kHilbertTaps - 1 /\ c - k >= 0) => h[c + k] = -h[c - k]
       /\ \A i \in 0..(kHilbertTaps - 1) : (i - c) % 2 = 0 => h[i] = 0

\* The last n entries of a sequence.
LastN(seq, n) == SubSeq(seq, Len(seq) - n + 1, Len(seq))

Occurrences(seq, v) == Cardinality({j \in 1..Len(seq) : seq[j] = v})

\* sum over j = 0..n-1 of coeffs[j] * x_(k-j), for xs = x_1..x_k.
RECURSIVE Convolution(_, _, _)
Convolution(coeffs, xs, n) ==
  IF n = 0 THEN 0
  ELSE coeffs[n - 1] * xs[Len(xs) - (n - 1)] + Convolution(coeffs, xs, n - 1)

\* C7: after k calls ProcessHilbert(x_1..x_k) on the left state array alone,
\* the array holds the min(k, kHilbertTaps) most recent inputs and zeros
\* elsewhere, and the k-th call returned the sum of hilbert_coeffs[j] *
\* x_(k-j) over the taps.
C7_HilbertRingBuffer ==
  (variant = "am" /\ started /\ hilLog.r = <<>> /\ hilLog.l # <<>>) =>
    LET k == Len(hilLog.l)
        n == IF k < kHilbertTaps THEN k ELSE kHilbertTaps
        recent == LastN(hilLog.l, n)
        st == hilbert.hilbert_state_l
    IN /\ \A v \in HilVals :
            Cardinality({i \in 0..(kHilbertTaps - 1) : st[i] = v})
              = Occurrences(recent, v)
       /\ hilLog.y = Convolution(hilbert.hilbert_coeffs, hilLog.l, n)

\* The filters of channel c ("_l" for 0, "_r" for 1).
ChannelFilters(c) ==
  IF c = 0
    THEN {"base_hpf_l", "base_lpf_l", "low_shelf_l", "pre_emph_l", "bandpass_hpf_l",
          "bandpass_lpf_l", "bandpass_lpf2_l", "post_hpf_l", "post_hpf2_l"}
    ELSE {"base_hpf_r", "base_lpf_r", "low_shelf_r", "pre_emph_r", "bandpass_hpf_r",
          "bandpass_lpf_r", "bandpass_lpf2_r", "post_hpf_r", "post_hpf2_r"}

\* C8: two runs of the AM sketch that receive the same samples (and
\* presence) on one input channel and arbitrary samples on the other produce
\* the same output, frame by frame, on the shared channel's side, keep that
\* side's filters in the same state, and have the same carrier phase.
C8_ChannelIsolation ==
  (variant = "am" /\ started) =>
    /\ amA.out[shared + 1] = amB.out[shared + 1]
    /\ \A f \in ChannelFilters(shared) : amA[f] = amB[f]
    /\ amA.carrier_phase = amB.carrier_phase

C8_Witness ==
  /\ variant = "am" /\ started
  /\ shared = 0
  /\ amA.ticks = 2
  /\ amA.out[2] # amB.out[2]
  /\ amA.base_hpf_r # amB.base_hpf_r
  /\ amA.out[1] = amB.out[1]
  /\ amA.out[1][2] # 0
  /\ amA.base_hpf_l.z1 # 0

\* C9: whatever the coefficients, a biquad whose delay state is zero (as
\* every Configure* call leaves it) returns 0 from Process(0) and keeps
\* z1 = z2 = 0, for any number of zero inputs.
C9_ZeroInZeroOut ==
  (variant = "biquad" /\ unitLog.zeros) =>
    (unit.z1 = 0 /\ unit.z2 = 0 /\ unitLog.y = 0)

C9_Witness ==
  /\ variant = "biquad"
  /\ unitLog.zeros
  /\ unitLog.since = 2
  /\ unitLog.calls = 3
  /\ unit.b0 = 2 /\ unit.b1 = -1 /\ unit.b2 = 2 /\ unit.a1 = 1 /\ unit.a2 = -1

====
